---- MODULE Spec2Model ----
(***************************************************************************)
(* Model of the trip planner of the logistics application (src/app.py):    *)
(* the batch ("bulk") planning run of schedule_truck with its direct pass  *)
(* and its partials pass, the single-order path of schedule_truck, and     *)
(* the record operations that change what a run reads.                     *)
(*                                                                         *)
(* The committed database and the SQLAlchemy session of the request being  *)
(* served are kept apart: a run works on the session (pending Schedule     *)
(* rows, in-memory trip counters) and only db.session.commit() moves them  *)
(* to the database.  A batch run is stepped loop iteration by loop         *)
(* iteration; every other request is one step.                             *)
(***************************************************************************)
EXTENDS Integers, Sequences, FiniteSets, TLC

(***************************************************************************)
(* The registered fleet and the stores (rows created through add_truck,    *)
(* drivers and add_store; no route edits or deletes a truck or a store).   *)
(***************************************************************************)
Trucks == {1, 2}
Drivers == {1, 2}
Stores == {1, 2, 3}

\* An id that names no Store row: db.session.get(Store, id) returns None.
NoStore == 0
\* assigned_driver_id / driver_id NULL.
NoDriver == 0

\* Truck.capacity_tons
capacity_tons(t) == IF t = 1 THEN 10 ELSE 5
\* Truck.is_low, Truck.is_large, Truck.is_tall
is_low(t) == t = 2
is_large(t) == FALSE
is_tall(t) == FALSE
\* Store.distance_km
distance_km(s) == CASE s = 1 -> 0 [] s = 2 -> 5 [] OTHER -> 20
\* Store.high_dock, Store.small_gate, Store.low_wires
high_dock(s) == s = 2
small_gate(s) == FALSE
low_wires(s) == FALSE

\* Inputs of the requests.
Volumes == {4, 7, 8, 12}
SingleLoads == {0, 7, 12}
StoreIds == Stores \cup {NoStore}
\* start_time of the form, as a number of the hour.
StartTimes == {1, 2}
\* start_time outside a request.
NoTime == 0

\* Bounds of the exploration.
MaxOps == 3
MaxRuns == 1
MaxOrders == 2
MaxSkips == 4
MaxConsIter == 8

\* The proximity window of the partials pass, in km.
WindowKm == 10

VARIABLES
    \* committed database
    truckStatus,     \* Truck.status
    assigned,        \* Truck.assigned_driver_id (NoDriver = NULL)
    truckCount,      \* Truck.trip_count
    driverStatus,    \* Driver.status
    driverCount,     \* Driver.trip_count
    trips,           \* the Schedule rows
    nextId,          \* the next Schedule.id
    \* the request being served and its session
    pc,              \* "idle", or the position of the batch run
    start_time,      \* start_time (line 270)
    valid_trucks,    \* valid_trucks (line 276)
    orders,          \* the orders taken from the form so far (line 285)
    store,           \* order['store'] of the order in the direct pass
    remaining,       \* remaining
    truck_idx,       \* truck_idx
    partials,        \* partials
    trips_generated, \* trips_generated
    s_truckCount,    \* truck.trip_count of the session's Truck objects
    s_driverCount,   \* driver.trip_count of the session's Driver objects
    pending,         \* Schedule rows added to the session, not committed
    flashes,         \* messages flashed by the last request
    outcome,         \* how the last request ended
    \* history, for stating the properties
    pre,             \* the database when the batch run started
    skips,           \* consecutive skips of the direct pass for this order
    consIter,        \* iterations of the partials loop so far
    nFrags0,         \* fragments handed to the partials pass
    plan,            \* the last batch run that was committed
    ops,             \* requests served so far
    runs,            \* batch runs started so far
    req,             \* the last request, when it was a single order, a
                     \* mark_complete or a revert_trip
    reverted,        \* the Schedule ids revert_trip has deleted
    \* the compatibility checker on its own
    probe,           \* a truck and a store given to check_compatibility
    \* requests served at the same time by two threads of the server
    sess             \* the request of each thread and its database session

dbVars == <<truckStatus, assigned, truckCount, driverStatus, driverCount, trips, nextId>>
runVars == <<start_time, valid_trucks, orders, store, remaining, truck_idx, partials,
             trips_generated, s_truckCount, s_driverCount, pending>>
histVars == <<pre, skips, consIter, nFrags0, plan>>
reqVars == <<req, reverted>>
vars == <<dbVars, pc, runVars, flashes, outcome, histVars, ops, runs, reqVars, probe, sess>>

(***************************************************************************)
(* Helpers                                                                 *)
(***************************************************************************)
Min(a, b) == IF a <= b THEN a ELSE b
Abs(a) == IF a >= 0 THEN a ELSE 0 - a

RECURSIVE SumSeq(_)
SumSeq(q) == IF q = <<>> THEN 0 ELSE Head(q) + SumSeq(Tail(q))

Range(q) == {q[i] : i \in 1..Len(q)}

\* The columns of a Truck row and of a Store row check_compatibility reads.
TruckFlags(lo, la, ta) == [is_low |-> lo, is_large |-> la, is_tall |-> ta]
StoreFlags(hd, sg, lw) == [high_dock |-> hd, small_gate |-> sg, low_wires |-> lw]

\* Mutant of CheckCompatibility: the third rule is missing.
CheckCompatibilityNoWires(tr, st) ==
    IF tr.is_low /\ st.high_dock THEN [ok |-> FALSE, msg |-> "too LOW"]
    ELSE IF tr.is_large /\ st.small_gate THEN [ok |-> FALSE, msg |-> "too BIG"]
    ELSE [ok |-> TRUE, msg |-> "OK"]

\* check_compatibility(truck, store): the pair it returns.
CheckCompatibility(tr, st) ==
    IF tr.is_low /\ st.high_dock THEN [ok |-> FALSE, msg |-> "too LOW"]
    ELSE IF tr.is_large /\ st.small_gate THEN [ok |-> FALSE, msg |-> "too BIG"]
    ELSE IF tr.is_tall /\ st.low_wires THEN [ok |-> FALSE, msg |-> "too TALL"]
    ELSE [ok |-> TRUE, msg |-> "OK"]

\* check_compatibility(truck, store)[0], for a Truck row and a Store row of the
\* fleet.
check_compatibility(t, s) ==
    CheckCompatibility(TruckFlags(is_low(t), is_large(t), is_tall(t)),
                       StoreFlags(high_dock(s), small_gate(s), low_wires(s))).ok

\* check_compatibility(truck, None): `truck.is_low and store.high_dock` reads
\* an attribute of None as soon as one truck flag is set, and raises.
CompatRaises(t) == is_low(t) \/ is_large(t) \/ is_tall(t)

\* Mutant of CompatibleWith: every truck of the pool is taken as compatible.
CompatibleWithAll(vt, s) == vt

\* [t for t in valid_trucks if check_compatibility(t, store)[0]]
\* (for None and trucks without flags every check returns True).
CompatibleWith(vt, s) ==
    IF s = NoStore THEN vt
    ELSE SelectSeq(vt, LAMBDA t : check_compatibility(t, s))

\* Truck.query.filter_by(status='Active').order_by(Truck.trip_count).all():
\* the orders the database may return; rows with equal counts come in any order.
RECURSIVE SeqsOf(_)
SeqsOf(S) ==
    IF S = {} THEN {<<>>}
    ELSE UNION {{<<x>> \o q : q \in SeqsOf(S \ {x})} : x \in S}

OrderByTripCount(S, cnt) ==
    {q \in SeqsOf(S) : \A i \in 1..Len(q) : \A j \in i..Len(q) : cnt[q[i]] <= cnt[q[j]]}

\* Mutant of DriverUnusable: the driver's status is not looked at.
DriverMissing(t) == assigned[t] = NoDriver

\* driver = truck.assigned_driver; `not driver or driver.status != 'Active'`
DriverUnusable(t) ==
    \/ assigned[t] = NoDriver
    \/ driverStatus[assigned[t]] # "Active"

\* Mutant of NearFull: the threshold is half the capacity.
NearFullHalf(rem, cap) == 2 * rem >= cap

\* Mutant of NearFull: there is no threshold.
NearFullAlways(rem, cap) == TRUE

\* remaining >= (truck.capacity_tons * 0.8), on whole numbers
NearFull(rem, cap) == 5 * rem >= 4 * cap


Flash(m, a) == [msg |-> m, arg |-> a]

\* How a request ended, and the number of Schedule rows it had added to its
\* session by then.
Outcome(k, n) == [kind |-> k, rows |-> n]

\* req after any other request.
NoRequest == [kind |-> "none"]

\* probe while the application runs, and the result of a check not made yet.
NoProbe == [kind |-> "none"]
NoResult == [ok |-> FALSE, msg |-> "none"]

\* Two of the threads of serve(app, ..., threads=6).
Procs == {1, 2}

\* A thread that has not taken its request: its session holds no object.
NoSession ==
    [kind |-> "none", pc |-> "new", start_time |-> NoTime,
     truckCount |-> <<>>, driverCount |-> <<>>, dirtyTrucks |-> {}, dirtyDrivers |-> {},
     valid_trucks |-> <<>>, store |-> NoStore, remaining |-> 0, truck_idx |-> 0,
     partials |-> <<>>, pending |-> <<>>, deleted |-> 0,
     netTrucks |-> [t \in Trucks |-> 0], netDrivers |-> [d \in Drivers |-> 0]]

NoSessions == [p \in Procs |-> NoSession]

\* pre outside a batch run.
NoSnapshot == [truckCount |-> <<>>, driverCount |-> <<>>, trips |-> {}]

\* plan before any batch run was committed.
NoPlan == [truckCount |-> <<>>, driverCount |-> <<>>, tripIds |-> {}, ids |-> {},
           phantom |-> FALSE]

\* Schedule(truck_id=, store_id=, driver_id=, load_weight=, trip_type=) added to
\* the session; ord and grp record the order and the partials iteration it
\* comes from.
Row(t, s, d, l, k, o, g) ==
    [truck |-> t, store |-> s, driver |-> d, load |-> l, kind |-> k, ord |-> o, grp |-> g]

\* The row as committed: the database gives it its id, status defaults to
\* 'Scheduled' (both call sites pass status='Scheduled'), start_time is the
\* start_time of the request that added it.
Stored(r, id, st) ==
    [id |-> id, start |-> st, truck |-> r.truck, store |-> r.store, driver |-> r.driver,
     load |-> r.load, kind |-> r.kind, status |-> "Scheduled", ord |-> r.ord, grp |-> r.grp]

\* Mutant of DirectLoad: the whole remainder is loaded.
DirectLoadUncapped(rem, cap) == rem

\* min(remaining, truck.capacity_tons)
DirectLoad(rem, cap) == Min(rem, cap)

\* partials.sort(key=lambda x: x['store'].distance_km): a stable sort.
RECURSIVE InsertByDistance(_, _)
InsertByDistance(p, q) ==
    IF q = <<>> THEN <<p>>
    ELSE IF distance_km(Head(q).store) <= distance_km(p.store)
         THEN <<Head(q)>> \o InsertByDistance(p, Tail(q))
         ELSE <<p>> \o q

RECURSIVE SortByDistance(_)
SortByDistance(q) ==
    IF q = <<>> THEN <<>>
    ELSE InsertByDistance(q[Len(q)], SortByDistance(SubSeq(q, 1, Len(q) - 1)))

\* Mutant of WithinWindow: a window twice as wide.
WithinWindowWide(p, base) ==
    Abs(distance_km(p.store) - distance_km(base.store)) <= 2 * WindowKm

\* abs(p['store'].distance_km - base['store'].distance_km) <= 10
WithinWindow(p, base) == Abs(distance_km(p.store) - distance_km(base.store)) <= WindowKm

\* Mutant of FitsCapacity: the running load of the group is forgotten.
FitsAlone(load, vol, cap) == vol <= cap

\* current_load + p['volume'] <= truck.capacity_tons
FitsCapacity(load, vol, cap) == load + vol <= cap

\* Mutant of Accepts: the truck is not checked against the fragment's store.
AcceptsAnyStore(t, p, base, load) ==
    /\ FitsCapacity(load, p.volume, capacity_tons(t))
    /\ WithinWindow(p, base)

\* The condition under which the scan of the partials takes fragment p.
Accepts(t, p, base, load) ==
    /\ check_compatibility(t, p.store)
    /\ FitsCapacity(load, p.volume, capacity_tons(t))
    /\ WithinWindow(p, base)

\* Mutant of Bundle: a fragment the scan rejects is removed from the pool too.
RECURSIVE BundleDropsRejected(_, _, _, _, _, _)
BundleDropsRejected(ps, t, base, load, taken, left) ==
    IF ps = <<>> THEN [taken |-> taken, left |-> left]
    ELSE IF Accepts(t, Head(ps), base, load)
         THEN BundleDropsRejected(Tail(ps), t, base, load + Head(ps).volume,
                                  Append(taken, Head(ps)), left)
         ELSE BundleDropsRejected(Tail(ps), t, base, load, taken, left)

\* Mutant of Bundle: a fragment that is taken stays in the pool.
RECURSIVE BundleKeepsTaken(_, _, _, _, _, _)
BundleKeepsTaken(ps, t, base, load, taken, left) ==
    IF ps = <<>> THEN [taken |-> taken, left |-> left]
    ELSE IF Accepts(t, Head(ps), base, load)
         THEN BundleKeepsTaken(Tail(ps), t, base, load + Head(ps).volume,
                               Append(taken, Head(ps)), Append(left, Head(ps)))
         ELSE BundleKeepsTaken(Tail(ps), t, base, load, taken, Append(left, Head(ps)))

\* for p in partials[:]: ... current_orders.append(p); current_load += ...;
\* partials.remove(p).  Returns the fragments taken and the fragments left.
RECURSIVE Bundle(_, _, _, _, _, _)
Bundle(ps, t, base, load, taken, left) ==
    IF ps = <<>> THEN [taken |-> taken, left |-> left]
    ELSE IF Accepts(t, Head(ps), base, load)
         THEN Bundle(Tail(ps), t, base, load + Head(ps).volume, Append(taken, Head(ps)), left)
         ELSE Bundle(Tail(ps), t, base, load, taken, Append(left, Head(ps)))

(***************************************************************************)
(* Initial state: the fleet is registered, every truck is Active and has   *)
(* its driver, no trip has been planned.                                   *)
(***************************************************************************)
InitRequest ==
    /\ pc = "idle"
    /\ start_time = NoTime
    /\ valid_trucks = <<>>
    /\ orders = <<>>
    /\ store = NoStore
    /\ remaining = 0
    /\ truck_idx = 0
    /\ partials = <<>>
    /\ trips_generated = 0
    /\ s_truckCount = [t \in Trucks |-> 0]
    /\ s_driverCount = [d \in Drivers |-> 0]
    /\ pending = <<>>
    /\ flashes = <<>>
    /\ outcome = Outcome("none", 0)
    /\ pre = NoSnapshot
    /\ skips = 0
    /\ consIter = 0
    /\ nFrags0 = 0
    /\ ops = 0
    /\ runs = 0
    /\ plan = NoPlan
    /\ req = NoRequest
    /\ reverted = {}

InitState ==
    /\ truckStatus = [t \in Trucks |-> "Active"]
    /\ assigned = [t \in Trucks |-> t]
    /\ truckCount = [t \in Trucks |-> 0]
    /\ driverStatus = [d \in Drivers |-> "Active"]
    /\ driverCount = [d \in Drivers |-> 0]
    /\ trips = {}
    /\ nextId = 1
    /\ InitRequest

Init == InitState /\ probe = NoProbe /\ sess = NoSessions

(***************************************************************************)
(* Record operations                                                       *)
(***************************************************************************)
\* toggle_truck_status(id)
ToggleTruckStatus(t) ==
    /\ pc = "idle" /\ ops < MaxOps
    /\ truckStatus' = [truckStatus EXCEPT ![t] = IF @ = "Active" THEN "Maintenance" ELSE "Active"]
    /\ ops' = ops + 1
    /\ UNCHANGED <<assigned, truckCount, driverStatus, driverCount, trips, nextId>>
    /\ req' = NoRequest
    /\ UNCHANGED <<pc, runVars, flashes, outcome, histVars, runs, reverted, probe, sess>>

\* drivers(), the 'status_update' form
DriverStatusUpdate(d, st) ==
    /\ pc = "idle" /\ ops < MaxOps
    /\ d \in DOMAIN driverStatus
    /\ driverStatus[d] # st
    /\ driverStatus' = [driverStatus EXCEPT ![d] = st]
    /\ ops' = ops + 1
    /\ UNCHANGED <<truckStatus, assigned, truckCount, driverCount, trips, nextId>>
    /\ req' = NoRequest
    /\ UNCHANGED <<pc, runVars, flashes, outcome, histVars, runs, reverted, probe, sess>>

\* Truck.query.filter_by(assigned_driver_id=d.id).first()
FirstTruckOf(d) ==
    IF \E t \in Trucks : assigned[t] = d
    THEN CHOOSE t \in Trucks : assigned[t] = d /\ \A u \in Trucks : assigned[u] = d => t <= u
    ELSE 0

\* edit_driver(id): the driver leaves the truck it had and gets new_tid
\* (0: the form's truck_id is empty).
EditDriver(d, new_tid) ==
    /\ pc = "idle" /\ ops < MaxOps
    /\ d \in DOMAIN driverStatus
    /\ LET old == FirstTruckOf(d)
           a1 == IF old # 0 THEN [assigned EXCEPT ![old] = NoDriver] ELSE assigned
           a2 == IF new_tid # 0 THEN [a1 EXCEPT ![new_tid] = d] ELSE a1
       IN /\ a2 # assigned
          /\ assigned' = a2
    /\ ops' = ops + 1
    /\ UNCHANGED <<truckStatus, truckCount, driverStatus, driverCount, trips, nextId>>
    /\ req' = NoRequest
    /\ UNCHANGED <<pc, runVars, flashes, outcome, histVars, runs, reverted, probe, sess>>


(***************************************************************************)
(* schedule_truck, POST: what every path shares                            *)
(***************************************************************************)
\* The request is over: its locals and its session are gone.
EndOfRequest ==
    /\ start_time' = NoTime
    /\ valid_trucks' = <<>>
    /\ orders' = <<>>
    /\ store' = NoStore
    /\ remaining' = 0
    /\ truck_idx' = 0
    /\ partials' = <<>>
    /\ trips_generated' = 0
    /\ s_truckCount' = [t \in Trucks |-> 0]
    /\ s_driverCount' = [d \in Drivers |-> 0]
    /\ pending' = <<>>
    /\ pre' = NoSnapshot
    /\ skips' = 0
    /\ consIter' = 0
    /\ nFrags0' = 0

\* Mutant of Raise: the session is flushed and committed on the way out.
RaiseCommitting ==
    /\ pc' = "idle"
    /\ outcome' = Outcome("error", Len(pending))
    /\ flashes' = Append(flashes, Flash("Error", 0))
    /\ truckCount' = s_truckCount
    /\ driverCount' = s_driverCount
    /\ trips' = trips \cup {Stored(pending[i], nextId + i - 1, start_time) : i \in 1..Len(pending)}
    /\ nextId' = nextId + Len(pending)
    /\ EndOfRequest
    /\ UNCHANGED <<truckStatus, assigned, driverStatus, ops, runs, reqVars, probe, plan, sess>>

\* except Exception as e: flash(f'Error: {e}').  Nothing is committed; the
\* session, with whatever was added to it, is dropped when the request ends.
Raise ==
    /\ pc' = "idle"
    /\ outcome' = Outcome("error", Len(pending))
    /\ flashes' = Append(flashes, Flash("Error", 0))
    /\ EndOfRequest
    /\ UNCHANGED <<dbVars, ops, runs, reqVars, probe, plan, sess>>

(***************************************************************************)
(* schedule_truck, schedule_type == 'bulk'                                 *)
(***************************************************************************)
\* valid_trucks = [t for t in trucks if t.capacity_tons > 0 and t.assigned_driver_id]
ValidTrucks(q) == SelectSeq(q, LAMBDA t : capacity_tons(t) > 0 /\ assigned[t] # NoDriver)

\* Lines 263-279 and 287-289: the queries, the pool, the run's locals.
BatchStart(st) ==
    /\ pc = "idle" /\ ops < MaxOps /\ runs < MaxRuns
    /\ \E q \in OrderByTripCount({t \in Trucks : truckStatus[t] = "Active"}, truckCount) :
          IF ValidTrucks(q) = <<>>
          THEN /\ pc' = "idle"
               /\ flashes' = <<Flash("No active trucks with drivers available.", 0)>>
               /\ outcome' = Outcome("rejected", 0)
               /\ UNCHANGED <<runVars, histVars>>
          ELSE /\ pc' = "orders"
               /\ flashes' = <<>>
               /\ outcome' = Outcome("running", 0)
               /\ start_time' = st
               /\ valid_trucks' = ValidTrucks(q)
               /\ s_truckCount' = truckCount
               /\ s_driverCount' = driverCount
               /\ pre' = [truckCount |-> truckCount, driverCount |-> driverCount, trips |-> trips]
               /\ UNCHANGED <<orders, store, remaining, truck_idx, partials,
                              trips_generated, pending, skips, consIter, nFrags0, plan>>
    /\ ops' = ops + 1
    /\ runs' = runs + 1
    /\ req' = NoRequest
    /\ UNCHANGED <<dbVars, reverted, probe, sess>>

\* Lines 292-296: the next order of the form, its compatible trucks.
NextOrder(s, v) ==
    /\ pc = "orders" /\ Len(orders) < MaxOrders
    /\ IF s = NoStore /\ \E i \in 1..Len(valid_trucks) : CompatRaises(valid_trucks[i])
       THEN Raise
       ELSE /\ orders' = Append(orders, [store |-> s, volume |-> v])
            /\ IF CompatibleWith(valid_trucks, s) = <<>>
               THEN /\ flashes' = Append(flashes, Flash("Skipped: No compatible trucks.", s))
                    /\ pc' = "orders"
                    /\ UNCHANGED <<store, remaining, skips>>
               ELSE /\ pc' = "direct"
                    /\ store' = s
                    /\ remaining' = v
                    /\ skips' = 0
                    /\ UNCHANGED flashes
            /\ UNCHANGED <<dbVars, start_time, valid_trucks, truck_idx, partials, trips_generated,
                           s_truckCount, s_driverCount, pending, outcome,
                           pre, plan, consIter, nFrags0, ops, runs, reqVars, probe, sess>>

\* truck = compatible[truck_idx % len(compatible)]
Selected(compatible, idx) == compatible[(idx % Len(compatible)) + 1]

\* Line 301: the selected truck's driver is missing or not Active.
DirectSkip ==
    /\ pc = "direct"
    /\ skips < MaxSkips
    /\ DriverUnusable(Selected(CompatibleWith(valid_trucks, store), truck_idx))
    /\ truck_idx' = truck_idx + 1
    /\ skips' = skips + 1
    /\ UNCHANGED <<dbVars, pc, start_time, valid_trucks, orders, store, remaining, partials,
                   trips_generated, s_truckCount, s_driverCount, pending,
                   flashes, outcome, pre, plan, consIter, nFrags0, ops, runs, reqVars, probe, sess>>

\* Mutant of DirectAdvance: the cursor stays on the truck it has just used.
DirectAdvanceStuck(idx) == idx

\* truck_idx += 1 after a Direct trip (line 307)
DirectAdvance(idx) == idx + 1

\* Lines 303-308: a Direct trip on the selected truck.
DirectAllocate ==
    /\ pc = "direct"
    /\ LET truck == Selected(CompatibleWith(valid_trucks, store), truck_idx)
           driver == assigned[truck]
           load == DirectLoad(remaining, capacity_tons(truck))
       IN /\ ~DriverUnusable(truck)
          /\ NearFull(remaining, capacity_tons(truck))
          /\ IF store = NoStore
             THEN \* store.distance_km on None
                  Raise
             ELSE /\ pending' = Append(pending,
                                       Row(truck, store, driver, load, "Direct", Len(orders), 0))
                  /\ s_truckCount' = [s_truckCount EXCEPT ![truck] = @ + 1]
                  /\ s_driverCount' = [s_driverCount EXCEPT ![driver] = @ + 1]
                  /\ truck_idx' = DirectAdvance(truck_idx)
                  /\ trips_generated' = trips_generated + 1
                  /\ remaining' = remaining - load
                  /\ pc' = IF remaining - load > 0 THEN "direct" ELSE "orders"
                  /\ skips' = 0
                  /\ UNCHANGED <<dbVars, start_time, valid_trucks, orders, store, partials,
                                 flashes, outcome, pre, plan, consIter, nFrags0, ops, runs, reqVars, probe, sess>>

\* The fragment kept for the partials pass.
Fragment(s, v, o) == [store |-> s, volume |-> v, ord |-> o]

\* Lines 309-311: what remains is below the threshold and becomes a fragment.
DirectFragment ==
    /\ pc = "direct"
    /\ LET truck == Selected(CompatibleWith(valid_trucks, store), truck_idx)
       IN /\ ~DriverUnusable(truck)
          /\ ~NearFull(remaining, capacity_tons(truck))
    /\ partials' = Append(partials, Fragment(store, remaining, Len(orders)))
    /\ remaining' = 0
    /\ pc' = "orders"
    /\ UNCHANGED <<dbVars, start_time, valid_trucks, orders, store, truck_idx, trips_generated,
                   s_truckCount, s_driverCount, pending, flashes, outcome,
                   histVars, ops, runs, reqVars, probe, sess>>

\* Line 314, after the last order.
SortPartials ==
    /\ pc = "orders"
    /\ IF \E i \in 1..Len(partials) : partials[i].store = NoStore
       THEN \* the sort key reads distance_km of None
            Raise
       ELSE /\ partials' = SortByDistance(partials)
            /\ nFrags0' = Len(partials)
            /\ consIter' = 0
            /\ pc' = "partials"
            /\ UNCHANGED <<dbVars, start_time, valid_trucks, orders, store, remaining, truck_idx,
                           trips_generated, s_truckCount, s_driverCount, pending,
                           flashes, outcome, pre, plan, skips, ops, runs, reqVars, probe, sess>>

\* Mutant of ConsAdvance: the cursor stays where it is.
ConsAdvanceStuck(idx) == idx

\* truck_idx += 1 of the partials loop (line 322)
ConsAdvance(idx) == idx + 1

\* Lines 316-323: the selected truck's driver is missing or not Active.
ConsSkip ==
    /\ pc = "partials" /\ partials # <<>>
    /\ consIter < MaxConsIter
    /\ LET base_compat == CompatibleWith(valid_trucks, partials[1].store)
       IN /\ base_compat # <<>>
          /\ DriverUnusable(Selected(base_compat, truck_idx))
    /\ truck_idx' = ConsAdvance(truck_idx)
    /\ consIter' = consIter + 1
    /\ UNCHANGED <<dbVars, pc, start_time, valid_trucks, orders, store, remaining, partials,
                   trips_generated, s_truckCount, s_driverCount, pending,
                   flashes, outcome, pre, plan, skips, nFrags0, ops, runs, reqVars, probe, sess>>

\* The Merged rows of one group (lines 332-334).
MergedRows(taken, truck, driver, g) ==
    [i \in 1..Len(taken) |->
        Row(truck, taken[i].store, driver, taken[i].volume, "Merged", taken[i].ord, g)]

\* Mutant of OncePerGroup: the counter is incremented once per row.
OncePerRow(cnt, k, n) == [cnt EXCEPT ![k] = @ + n]

\* truck.trip_count += 1; driver.trip_count += 1 after the rows of a group of
\* n fragments (line 336)
OncePerGroup(cnt, k, n) == [cnt EXCEPT ![k] = @ + 1]

\* Lines 316-336: one iteration of the partials loop with a usable driver
\* (or with no compatible truck for the base: the base is popped).
ConsBundle ==
    /\ pc = "partials" /\ partials # <<>>
    /\ consIter < MaxConsIter
    /\ consIter' = consIter + 1
    /\ LET base == partials[1]
           base_compat == CompatibleWith(valid_trucks, base.store)
       IN IF base_compat = <<>>
          THEN /\ partials' = Tail(partials)
               /\ UNCHANGED <<truck_idx, trips_generated, s_truckCount, s_driverCount, pending>>
          ELSE LET truck == Selected(base_compat, truck_idx)
                   driver == assigned[truck]
                   b == Bundle(partials, truck, base, 0, <<>>, <<>>)
               IN /\ ~DriverUnusable(truck)
                  /\ truck_idx' = ConsAdvance(truck_idx)
                  /\ partials' = b.left
                  /\ pending' = pending \o MergedRows(b.taken, truck, driver, consIter + 1)
                  /\ s_truckCount' = OncePerGroup(s_truckCount, truck, Len(b.taken))
                  /\ s_driverCount' = OncePerGroup(s_driverCount, driver, Len(b.taken))
                  /\ trips_generated' = trips_generated + 1
    /\ UNCHANGED <<dbVars, pc, start_time, valid_trucks, orders, store, remaining,
                   flashes, outcome, pre, plan, skips, nFrags0, ops, runs, reqVars, probe, sess>>

\* The trips the rows of q stand for: a Direct row is a trip, the Merged rows
\* of one iteration are one trip.
TripsOf(q) ==
    Cardinality({i \in 1..Len(q) : q[i].kind = "Direct"})
    + Cardinality({q[i].grp : i \in {j \in 1..Len(q) : q[j].kind = "Merged"}})

\* Lines 338-340: db.session.commit().
Commit ==
    /\ pc = "partials" /\ partials = <<>>
    /\ truckCount' = s_truckCount
    /\ driverCount' = s_driverCount
    /\ trips' = trips \cup {Stored(pending[i], nextId + i - 1, start_time) : i \in 1..Len(pending)}
    /\ nextId' = nextId + Len(pending)
    /\ flashes' = Append(flashes, Flash("Auto-Plan: trips generated.", trips_generated))
    /\ outcome' = Outcome("committed", Len(pending))
    /\ plan' = [truckCount |-> pre.truckCount, driverCount |-> pre.driverCount,
                tripIds |-> {r.id : r \in trips},
                ids |-> nextId..(nextId + Len(pending) - 1),
                phantom |-> trips_generated # TripsOf(pending)]
    /\ pc' = "idle"
    /\ EndOfRequest
    /\ UNCHANGED <<truckStatus, assigned, driverStatus, ops, runs, reqVars, probe, sess>>

(***************************************************************************)
(* schedule_truck, the single-order path (lines 343-357)                   *)
(***************************************************************************)
\* flash(...); return redirect(url_for('schedule_truck'))
Reject(m) ==
    /\ flashes' = <<Flash(m, 0)>>
    /\ outcome' = Outcome("rejected", 0)
    /\ UNCHANGED dbVars

\* Mutant of Overload: the load is not compared with the capacity.
OverloadIgnored(l, t) == FALSE

\* load > truck.capacity_tons (line 349)
Overload(l, t) == l > capacity_tons(t)

\* Mutant of Incremented: the counter is left as it is.
NotIncremented(cnt, k) == cnt

\* truck.trip_count += 1; driver.trip_count += 1 (line 355)
Incremented(cnt, k) == [cnt EXCEPT ![k] = @ + 1]

\* The form of a single order: truck_id, store_id, load_weight.
SingleRequest(t, s, l) == [kind |-> "single", truck |-> t, store |-> s, load |-> l]

SingleOrder(t, s, l, st) ==
    /\ pc = "idle" /\ ops < MaxOps
    /\ ops' = ops + 1
    /\ req' = SingleRequest(t, s, l)
    /\ IF truckStatus[t] = "Maintenance" THEN Reject("Truck in Maintenance")
       ELSE IF s = NoStore /\ CompatRaises(t)
            THEN /\ flashes' = <<Flash("Error", 0)>> /\ outcome' = Outcome("error", 0) /\ UNCHANGED dbVars
       ELSE IF s # NoStore /\ ~check_compatibility(t, s) THEN Reject("Constraint Error")
       ELSE IF Overload(l, t) THEN Reject("Overload!")
       ELSE IF DriverUnusable(t) THEN Reject("Truck has no active driver")
       ELSE IF s = NoStore
            THEN /\ flashes' = <<Flash("Error", 0)>> /\ outcome' = Outcome("error", 0) /\ UNCHANGED dbVars
       ELSE /\ trips' = trips \cup {Stored(Row(t, s, assigned[t], l, "Direct", 0, 0), nextId, st)}
            /\ nextId' = nextId + 1
            /\ truckCount' = Incremented(truckCount, t)
            /\ driverCount' = Incremented(driverCount, assigned[t])
            /\ flashes' = <<>>
            /\ outcome' = Outcome("committed", 1)
            /\ UNCHANGED <<truckStatus, assigned, driverStatus>>
    /\ UNCHANGED <<pc, runVars, histVars, runs, reverted, probe, sess>>

(***************************************************************************)
(* The trips of the reports page and the drivers page                      *)
(***************************************************************************)
\* db.session.get(Schedule, id): the rows with that id (one, or none).
ScheduleWithId(id) == {r \in trips : r.id = id}

\* The link of a row of the reports page.
TripRequest(k, id) == [kind |-> k, id |-> id]

\* Mutant of Completed: the status is toggled, as toggle_truck_status does.
CompletedToggled(r) ==
    [r EXCEPT !.status = IF @ = "Scheduled" THEN "Completed" ELSE "Scheduled"]

\* t.status = 'Completed'
Completed(r) == [r EXCEPT !.status = "Completed"]

\* mark_complete(id)
MarkComplete(id) ==
    /\ pc = "idle" /\ ops < MaxOps
    /\ ScheduleWithId(id) # {}
    /\ trips' = {IF r.id = id THEN Completed(r) ELSE r : r \in trips}
    /\ ops' = ops + 1
    /\ req' = TripRequest("complete", id)
    /\ UNCHANGED <<truckStatus, assigned, truckCount, driverStatus, driverCount, nextId>>
    /\ UNCHANGED <<pc, runVars, flashes, outcome, histVars, runs, reverted, probe, sess>>

\* clear_logs(): Schedule.query.filter(Schedule.status=='Completed').delete()
ClearLogs ==
    /\ pc = "idle" /\ ops < MaxOps
    /\ \E r \in trips : r.status = "Completed"
    /\ trips' = {r \in trips : r.status # "Completed"}
    /\ ops' = ops + 1
    /\ req' = NoRequest
    /\ UNCHANGED <<truckStatus, assigned, truckCount, driverStatus, driverCount, nextId>>
    /\ UNCHANGED <<pc, runVars, flashes, outcome, histVars, runs, reverted, probe, sess>>

\* Mutant of Floored: the counter is decremented whatever it holds.
Unfloored(c) == c - 1

\* if x.trip_count > 0: x.trip_count -= 1
Floored(c) == IF c > 0 THEN c - 1 ELSE c

\* Mutant of WithoutTrip: the row is left in the table.
WithTrip(t) == trips

\* db.session.delete(t)
WithoutTrip(t) == trips \ {t}

\* revert_trip(id).  With no such row nothing is done.  A row whose driver_id
\* is NULL has t.driver None: t.driver.trip_count raises, the request ends
\* with a server error and the session, with the truck's counter already
\* decremented in it, is dropped without a commit.
RevertTrip(id) ==
    /\ pc = "idle" /\ ops < MaxOps
    /\ ops' = ops + 1
    /\ req' = TripRequest("revert", id)
    /\ IF ScheduleWithId(id) = {}
       THEN /\ outcome' = Outcome("nothing", 0)
            /\ UNCHANGED <<dbVars, reverted>>
       ELSE LET t == CHOOSE r \in trips : r.id = id
            IN IF t.driver = NoDriver
               THEN /\ outcome' = Outcome("error", 0)
                    /\ UNCHANGED <<dbVars, reverted>>
               ELSE /\ truckCount' = [truckCount EXCEPT ![t.truck] = Floored(@)]
                    /\ driverCount' = [driverCount EXCEPT ![t.driver] = Floored(@)]
                    /\ trips' = WithoutTrip(t)
                    /\ reverted' = reverted \cup {id}
                    /\ outcome' = Outcome("reverted", 1)
                    /\ UNCHANGED <<truckStatus, assigned, driverStatus, nextId>>
    /\ UNCHANGED <<pc, runVars, flashes, histVars, runs, probe, sess>>

\* delete_driver(id): the driver leaves its truck, its Schedule rows lose
\* their driver_id, its row is deleted.
DeleteDriver(d) ==
    /\ pc = "idle" /\ ops < MaxOps
    /\ d \in DOMAIN driverStatus
    /\ assigned' = IF FirstTruckOf(d) # 0
                   THEN [assigned EXCEPT ![FirstTruckOf(d)] = NoDriver]
                   ELSE assigned
    /\ trips' = {IF r.driver = d THEN [r EXCEPT !.driver = NoDriver] ELSE r : r \in trips}
    /\ driverStatus' = [x \in DOMAIN driverStatus \ {d} |-> driverStatus[x]]
    /\ driverCount' = [x \in DOMAIN driverCount \ {d} |-> driverCount[x]]
    /\ ops' = ops + 1
    /\ req' = NoRequest
    /\ UNCHANGED <<truckStatus, truckCount, nextId>>
    /\ UNCHANGED <<pc, runVars, flashes, outcome, histVars, runs, reverted, probe, sess>>

(***************************************************************************)
(* The system: requests are served one at a time.                          *)
(***************************************************************************)
Next ==
    \/ \E t \in Trucks : ToggleTruckStatus(t)
    \/ \E d \in Drivers : \E st \in {"Active", "Inactive"} : DriverStatusUpdate(d, st)
    \/ \E d \in Drivers : \E t \in Trucks \cup {0} : EditDriver(d, t)
    \/ \E st \in StartTimes : BatchStart(st)
    \/ \E s \in StoreIds : \E v \in Volumes : NextOrder(s, v)
    \/ DirectSkip
    \/ DirectAllocate
    \/ DirectFragment
    \/ SortPartials
    \/ ConsSkip
    \/ ConsBundle
    \/ Commit
    \/ \E t \in Trucks : \E s \in StoreIds : \E l \in SingleLoads : \E st \in StartTimes :
          SingleOrder(t, s, l, st)
    \/ \E id \in 1..(nextId - 1) : MarkComplete(id)
    \/ \E id \in 1..(nextId - 1) : RevertTrip(id)
    \/ \E d \in Drivers : DeleteDriver(d)
    \/ ClearLogs

Spec == Init /\ [][Next]_vars

(***************************************************************************)
(* The same system, taken up when one single order has been planned: the   *)
(* database is the one SingleOrder(1, 1, 7, 1) commits on the fresh one.   *)
(***************************************************************************)
PlannedTruckCount == Incremented([t \in Trucks |-> 0], 1)
PlannedDriverCount == Incremented([d \in Drivers |-> 0], 1)

PlannedDb ==
    /\ truckStatus = [t \in Trucks |-> "Active"]
    /\ assigned = [t \in Trucks |-> t]
    /\ truckCount = PlannedTruckCount
    /\ driverStatus = [d \in Drivers |-> "Active"]
    /\ driverCount = PlannedDriverCount
    /\ trips = {Stored(Row(1, 1, 1, 7, "Direct", 0, 0), 1, 1)}
    /\ nextId = 2

InitPlanned == PlannedDb /\ InitRequest /\ probe = NoProbe /\ sess = NoSessions

SpecPlanned == InitPlanned /\ [][Next]_vars

(***************************************************************************)
(* Two requests served at the same time (server.py, threads=6).  Each      *)
(* thread has its own session: the Truck and Driver objects it has loaded  *)
(* keep the trip_count they were read with, `+= 1` and `-= 1` work on that *)
(* value, and the commit writes the value of every attribute that was set. *)
(* No statement of the application locks a row.  The database is the one   *)
(* with a single order planned, every truck Active with an Active driver.  *)
(***************************************************************************)
InitConc == PlannedDb /\ InitRequest /\ probe = NoProbe /\ sess = NoSessions

ConcUnchanged ==
    UNCHANGED <<pc, runVars, flashes, outcome, histVars, ops, runs, reqVars, probe>>

\* Lines 263-296 of a bulk run with one order (s, v): the queries load the
\* trucks and the drivers with their counters.
ConcBatchStart(p, st, s, v) ==
    /\ sess[p].pc = "new"
    /\ \E q \in OrderByTripCount({t \in Trucks : truckStatus[t] = "Active"}, truckCount) :
          /\ ValidTrucks(q) # <<>>
          /\ sess' = [sess EXCEPT ![p] =
                 [@ EXCEPT !.kind = "bulk",
                           !.pc = IF CompatibleWith(ValidTrucks(q), s) = <<>>
                                  THEN "partials" ELSE "direct",
                           !.start_time = st,
                           !.truckCount = truckCount,
                           !.driverCount = driverCount,
                           !.valid_trucks = ValidTrucks(q),
                           !.store = s,
                           !.remaining = v]]
    /\ UNCHANGED dbVars
    /\ ConcUnchanged

\* Lines 298-311: one iteration of the direct loop, on the session's objects.
ConcDirect(p) ==
    /\ sess[p].pc = "direct"
    /\ LET x == sess[p]
           truck == Selected(CompatibleWith(x.valid_trucks, x.store), x.truck_idx)
           driver == assigned[truck]
           load == DirectLoad(x.remaining, capacity_tons(truck))
       IN /\ ~DriverUnusable(truck)
          /\ sess' = [sess EXCEPT ![p] =
                 IF NearFull(x.remaining, capacity_tons(truck))
                 THEN [x EXCEPT !.pending = Append(@, Row(truck, x.store, driver, load,
                                                         "Direct", 1, 0)),
                                !.truckCount = Incremented(@, truck),
                                !.driverCount = Incremented(@, driver),
                                !.dirtyTrucks = @ \cup {truck},
                                !.dirtyDrivers = @ \cup {driver},
                                !.netTrucks = Incremented(@, truck),
                                !.netDrivers = Incremented(@, driver),
                                !.truck_idx = DirectAdvance(@),
                                !.remaining = @ - load,
                                !.pc = IF x.remaining - load > 0 THEN "direct"
                                       ELSE "partials"]
                 ELSE [x EXCEPT !.partials = Append(@, Fragment(x.store, x.remaining, 1)),
                                !.remaining = 0,
                                !.pc = "partials"]]
    /\ UNCHANGED dbVars
    /\ ConcUnchanged

\* Lines 315-336: one iteration of the partials loop, on the session's
\* objects (the group is named after the cursor).
ConcBundle(p) ==
    /\ sess[p].pc = "partials" /\ sess[p].partials # <<>>
    /\ LET x == sess[p]
           base == x.partials[1]
           truck == Selected(CompatibleWith(x.valid_trucks, base.store), x.truck_idx)
           driver == assigned[truck]
           b == Bundle(x.partials, truck, base, 0, <<>>, <<>>)
       IN /\ ~DriverUnusable(truck)
          /\ sess' = [sess EXCEPT ![p] =
                 [x EXCEPT !.truck_idx = ConsAdvance(@),
                           !.partials = b.left,
                           !.pending = @ \o MergedRows(b.taken, truck, driver,
                                                       x.truck_idx + 1),
                           !.truckCount = OncePerGroup(@, truck, Len(b.taken)),
                           !.driverCount = OncePerGroup(@, driver, Len(b.taken)),
                           !.dirtyTrucks = @ \cup {truck},
                           !.dirtyDrivers = @ \cup {driver},
                           !.netTrucks = Incremented(@, truck),
                           !.netDrivers = Incremented(@, driver)]]
    /\ UNCHANGED dbVars
    /\ ConcUnchanged

\* Lines 263-355 of a single order: the objects are loaded, the order is
\* checked and, when it passes, the row is added and the counters are set.
ConcSingleOrder(p, t, s, l, st) ==
    /\ sess[p].pc = "new"
    /\ sess' = [sess EXCEPT ![p] =
           IF \/ truckStatus[t] = "Maintenance"
              \/ ~check_compatibility(t, s)
              \/ Overload(l, t)
              \/ DriverUnusable(t)
           THEN [@ EXCEPT !.kind = "single", !.pc = "done"]
           ELSE [@ EXCEPT !.kind = "single",
                          !.pc = "commit",
                          !.start_time = st,
                          !.pending = <<Row(t, s, assigned[t], l, "Direct", 0, 0)>>,
                          !.truckCount = Incremented(truckCount, t),
                          !.driverCount = Incremented(driverCount, assigned[t]),
                          !.dirtyTrucks = {t},
                          !.dirtyDrivers = {assigned[t]},
                          !.netTrucks = Incremented(@, t),
                          !.netDrivers = Incremented(@, assigned[t])]]
    /\ UNCHANGED dbVars
    /\ ConcUnchanged

\* x.trip_count -= 1 counted in the session's balance when it is made.
Decremented(net, cnt, k) == IF cnt[k] > 0 THEN [net EXCEPT ![k] = @ - 1] ELSE net

\* Lines 439-443 of revert_trip up to db.session.delete(t), for a row that
\* exists, has its driver and is not being reverted by the other thread.
ConcRevertTrip(p, id) ==
    /\ sess[p].pc = "new"
    /\ ScheduleWithId(id) # {}
    /\ \A o \in Procs : sess[o].deleted # id
    /\ LET t == CHOOSE r \in trips : r.id = id
       IN /\ t.driver # NoDriver
          /\ sess' = [sess EXCEPT ![p] =
                 [@ EXCEPT !.kind = "revert",
                           !.pc = "commit",
                           !.deleted = id,
                           !.truckCount = [truckCount EXCEPT ![t.truck] = Floored(@)],
                           !.driverCount = [driverCount EXCEPT ![t.driver] = Floored(@)],
                           !.dirtyTrucks = {k \in {t.truck} : truckCount[k] > 0},
                           !.dirtyDrivers = {k \in {t.driver} : driverCount[k] > 0},
                           !.netTrucks = Decremented(@, truckCount, t.truck),
                           !.netDrivers = Decremented(@, driverCount, t.driver)]]
    /\ UNCHANGED dbVars
    /\ ConcUnchanged

\* The value a commit leaves in a counter column: the session's value where
\* the attribute was set (UPDATE ... SET trip_count = value), else the
\* committed one.
Written(cnt, local, dirty) == [k \in DOMAIN cnt |-> IF k \in dirty THEN local[k] ELSE cnt[k]]

\* db.session.commit() (lines 338, 356, 443).
ConcCommit(p) ==
    /\ \/ sess[p].pc = "commit"
       \/ sess[p].pc = "partials" /\ sess[p].partials = <<>>
    /\ LET x == sess[p]
       IN /\ truckCount' = Written(truckCount, x.truckCount, x.dirtyTrucks)
          /\ driverCount' = Written(driverCount, x.driverCount, x.dirtyDrivers)
          /\ trips' = {r \in trips : r.id # x.deleted}
                        \cup {Stored(x.pending[i], nextId + i - 1, x.start_time) :
                                 i \in 1..Len(x.pending)}
          /\ nextId' = nextId + Len(x.pending)
    /\ sess' = [sess EXCEPT ![p].pc = "done"]
    /\ UNCHANGED <<truckStatus, assigned, driverStatus>>
    /\ ConcUnchanged

NextConc ==
    \/ \E p \in Procs : \E st \in StartTimes : \E s \in Stores : \E v \in Volumes :
          ConcBatchStart(p, st, s, v)
    \/ \E p \in Procs : ConcDirect(p)
    \/ \E p \in Procs : ConcBundle(p)
    \/ \E p \in Procs : \E t \in Trucks : \E s \in Stores : \E l \in SingleLoads :
          \E st \in StartTimes : ConcSingleOrder(p, t, s, l, st)
    \/ \E p \in Procs : \E id \in 1..(nextId - 1) : ConcRevertTrip(p, id)
    \/ \E p \in Procs : ConcCommit(p)

SpecConc == InitConc /\ [][NextConc]_vars

(***************************************************************************)
(* check_compatibility taken alone: a Truck row and a Store row with any   *)
(* of the 64 settings of the six flags, and one call.                      *)
(***************************************************************************)
Flags == {TRUE, FALSE}

InitCompat ==
    /\ InitState
    /\ \E lo, la, ta, hd, sg, lw \in Flags :
          probe = [kind |-> "call", truck |-> TruckFlags(lo, la, ta),
                   store |-> StoreFlags(hd, sg, lw), result |-> NoResult]
    /\ sess = NoSessions

\* result = check_compatibility(truck, store)
CallCheckCompatibility ==
    /\ probe.result = NoResult
    /\ probe' = [probe EXCEPT !.result = CheckCompatibility(probe.truck, probe.store)]
    /\ UNCHANGED <<dbVars, pc, runVars, flashes, outcome, histVars, ops, runs, reqVars, sess>>

NextCompat == CallCheckCompatibility

SpecCompat == InitCompat /\ [][NextCompat]_vars


(***************************************************************************)
(* Properties                                                              *)
(***************************************************************************)
\* Every Schedule row there is: committed, or added to the running session.
RowOk(P(_)) ==
    /\ \A r \in trips : P(r)
    /\ \A i \in 1..Len(pending) : P(pending[i])

Merged(i) == pending[i].kind = "Merged"
Direct(i) == pending[i].kind = "Direct"

\* The batch run has left its last loop: what follows is the commit.
RunComplete == pc = "partials" /\ partials = <<>>

C2_RowsCompatible == RowOk(LAMBDA r : r.store # NoStore /\ check_compatibility(r.truck, r.store))

\* Truck 2 (low) is in the pool while a Direct row and a Merged row go to the
\* high-dock store 2 in the same run, after a single order to store 2.
C2_Witness ==
    /\ \E k \in 1..Len(valid_trucks) : ~check_compatibility(valid_trucks[k], 2)
    /\ \E i, j \in 1..Len(pending) :
          /\ Direct(i) /\ pending[i].store = 2
          /\ Merged(j) /\ pending[j].store = 2
    /\ \E r \in trips : r.ord = 0 /\ r.store = 2

\* The committed rows without the fields the database adds.
Unstored(r) == Row(r.truck, r.store, r.driver, r.load, r.kind, r.ord, r.grp)

\* C3: a batch run is all-or-nothing for the database: while it runs nothing
\* of it is visible; when it ends, either all its rows and its counters are
\* committed, or the trips and the counters are those from before the run.
C3_AllOrNothing ==
    [][pc # "idle" =>
        IF pc' # "idle"
        THEN /\ truckCount' = pre.truckCount
             /\ driverCount' = pre.driverCount
             /\ trips' = pre.trips
        ELSE \/ /\ outcome'.kind = "committed"
                /\ truckCount' = s_truckCount
                /\ driverCount' = s_driverCount
                /\ pre.trips \subseteq trips'
                /\ Cardinality(trips' \ pre.trips) = Len(pending)
                /\ {Unstored(r) : r \in trips' \ pre.trips} = Range(pending)
             \/ /\ outcome'.kind = "error"
                /\ truckCount' = pre.truckCount
                /\ driverCount' = pre.driverCount
                /\ trips' = pre.trips]_vars

\* A run has failed after it had added rows to its session.
C3_Witness == pc = "idle" /\ outcome.kind = "error" /\ outcome.rows > 0

\* C4 (as claimed): in the direct pass the consecutive skips for one order
\* never exceed the number of compatible trucks.
C4_SkipsBounded ==
    pc = "direct" => skips <= Len(CompatibleWith(valid_trucks, store))

\* C5: the partials loop ends: its iterations are bounded by the fragments
\* consumed so far times the size of the pool, so every fragment is consumed
\* after at most nFrags0 * len(valid_trucks) iterations.
C5_ConsolidatorBounded ==
    pc = "partials" =>
        /\ consIter <= (nFrags0 - Len(partials)) * Len(valid_trucks)
                       + (IF partials = <<>> THEN 0 ELSE Len(valid_trucks) - 1)
        /\ consIter <= nFrags0 * Len(valid_trucks)
        /\ consIter < MaxConsIter

\* The loop has ended after an iteration that consumed nothing, with a truck
\* in the pool whose driver is not Active.
C5_Witness ==
    /\ RunComplete
    /\ nFrags0 >= 1
    /\ consIter > nFrags0
    /\ \E k \in 1..Len(valid_trucks) : DriverUnusable(valid_trucks[k])

\* The loads of the rows emitted for order o.
RECURSIVE LoadOf(_, _)
LoadOf(q, o) ==
    IF q = <<>> THEN 0
    ELSE (IF Head(q).ord = o THEN Head(q).load ELSE 0) + LoadOf(Tail(q), o)

SkippedFlash(s) == \E k \in 1..Len(flashes) : flashes[k] = Flash("Skipped: No compatible trucks.", s)

\* C6: when a batch run completes, the loads of the rows emitted for an order
\* sum to its volume, or the order was reported as skipped.
C6_NoSilentLoss ==
    RunComplete =>
        \A o \in 1..Len(orders) :
            \/ LoadOf(pending, o) = orders[o].volume
            \/ SkippedFlash(orders[o].store)

\* A completed run with a skipped order and an order served by a Direct row
\* and a Merged row.
C6_Witness ==
    /\ RunComplete
    /\ \E o \in 1..Len(orders) : SkippedFlash(orders[o].store) /\ LoadOf(pending, o) = 0
    /\ \E i, j \in 1..Len(pending) :
          Direct(i) /\ Merged(j) /\ pending[i].ord = pending[j].ord

RECURSIVE GroupLoad(_, _)
GroupLoad(q, g) ==
    IF q = <<>> THEN 0
    ELSE (IF Head(q).kind = "Merged" /\ Head(q).grp = g THEN Head(q).load ELSE 0)
         + GroupLoad(Tail(q), g)

\* C8: the loads of the rows of one Merged group sum to at most the capacity
\* of the group's vehicle.
C8_GroupWithinCapacity ==
    \A i \in 1..Len(pending) :
        Merged(i) => GroupLoad(pending, pending[i].grp) <= capacity_tons(pending[i].truck)

\* A group of two rows that fills its truck.
C8_Witness ==
    \E i \in 1..Len(pending) :
        /\ Merged(i)
        /\ pending[i].load < capacity_tons(pending[i].truck)
        /\ GroupLoad(pending, pending[i].grp) = capacity_tons(pending[i].truck)

\* Eligibility as the design states it.
Eligible(t) ==
    /\ truckStatus[t] = "Active"
    /\ capacity_tons(t) > 0
    /\ assigned[t] # NoDriver
    /\ driverStatus[assigned[t]] = "Active"

\* C9 (as claimed): the pool of a run holds exactly the eligible vehicles.
C9_PoolIsEligible ==
    pc # "idle" => Range(valid_trucks) = {t \in Trucks : Eligible(t)}

\* The vehicle and driver of a row are usable in the current database.
Usable(r) ==
    /\ truckStatus[r.truck] # "Maintenance"
    /\ r.driver # NoDriver
    /\ driverStatus[r.driver] = "Active"
    /\ r.driver = assigned[r.truck]

\* C10: a row is only ever created for a vehicle that is not in Maintenance,
\* with the vehicle's assigned driver, who is Active at that time.
C10_PlannedOnUsable ==
    [][/\ \A i \in (Len(pending) + 1)..Len(pending') : Usable(pending'[i])
       /\ pc = "idle" =>
            \A r \in trips' : (\A x \in trips : x.id # r.id) => Usable(r)]_vars

\* After a single order was planned, a run whose pool holds a truck with an
\* Inactive driver has planned a Direct row and a Merged row.
C10_Witness ==
    /\ \E r \in trips : r.ord = 0
    /\ \E k \in 1..Len(valid_trucks) : DriverUnusable(valid_trucks[k])
    /\ \E i, j \in 1..Len(pending) : Direct(i) /\ Merged(j)

\* C11 (as claimed): a batch run whose eligibility pool is empty at its start
\* fails there with a diagnostic, so no run is ever past its start without an
\* eligible vehicle (the database does not change while a run is served).
C11_EmptyPoolFails ==
    pc # "idle" => {t \in Trucks : Eligible(t)} # {}

\* The increase of truck t's counter in the running session.
Increase(t) == s_truckCount[t] - pre.truckCount[t]

\* Every truck of the pool has an Active driver and is compatible with the
\* store of every order.
FreeRotation ==
    \A k \in 1..Len(valid_trucks) :
        /\ ~DriverUnusable(valid_trucks[k])
        /\ \A o \in 1..Len(orders) :
              /\ orders[o].store # NoStore
              /\ check_compatibility(valid_trucks[k], orders[o].store)

\* Every order was allocated as exactly one Direct trip, and the run has
\* planned nothing else.
OneDirectEach ==
    /\ Len(pending) = Len(orders)
    /\ \A o \in 1..Len(orders) :
          \E i \in 1..Len(pending) :
              Direct(i) /\ pending[i].ord = o /\ pending[i].load = orders[o].volume

\* C12: round-robin fairness: when a batch run over vehicles that are all
\* usable and compatible with every ordered site has allocated every order as
\* exactly one Direct trip, the counter increases of any two vehicles of the
\* pool differ by at most 1 (for any number of orders, M >= N included).
C12_RoundRobinFair ==
    (RunComplete /\ FreeRotation /\ OneDirectEach) =>
        \A t, u \in Range(valid_trucks) : Abs(Increase(t) - Increase(u)) <= 1

\* Two vehicles, two orders, one Direct trip each.
C12_Witness ==
    /\ RunComplete /\ FreeRotation /\ OneDirectEach
    /\ Len(valid_trucks) = 2 /\ Len(orders) = 2
    /\ \A t \in Range(valid_trucks) : Increase(t) = 1

\* The four failure conditions of a single order, in the database the request
\* finds.
SingleFailures(t, s, l) ==
    [maintenance |-> truckStatus[t] = "Maintenance",
     constraint  |-> ~check_compatibility(t, s),
     overload    |-> l > capacity_tons(t),
     driver      |-> assigned[t] = NoDriver \/ driverStatus[assigned[t]] # "Active"]

\* The error of each failure condition.
SingleError ==
    [maintenance |-> "Truck in Maintenance",
     constraint  |-> "Constraint Error",
     overload    |-> "Overload!",
     driver      |-> "Truck has no active driver"]

\* The step serves a single order for a store that exists.
SingleStep == pc = "idle" /\ ops' = ops + 1 /\ req'.kind = "single" /\ req'.store # NoStore

\* C13: in the single-order path the four failure conditions have four
\* different errors; a request under any of them is rejected with the error
\* of a condition that holds, and a rejected request creates no Trip row and
\* changes no counter.
C13_SingleRejects ==
    [][SingleStep =>
        LET f == SingleFailures(req'.truck, req'.store, req'.load)
        IN /\ Cardinality({SingleError[c] : c \in DOMAIN SingleError}) = 4
           /\ (\E c \in DOMAIN f : f[c]) =>
                 /\ outcome'.kind = "rejected"
                 /\ \E c \in DOMAIN f : f[c] /\ flashes' = <<Flash(SingleError[c], 0)>>
           /\ outcome'.kind = "rejected" =>
                 /\ trips' = trips
                 /\ truckCount' = truckCount
                 /\ driverCount' = driverCount]_vars

\* With trips in the database, an overloaded request for a truck without an
\* Active driver has been rejected as overloaded.
C13_Witness ==
    /\ req.kind = "single" /\ req.store # NoStore
    /\ outcome.kind = "rejected"
    /\ flashes = <<Flash("Overload!", 0)>>
    /\ req.load > capacity_tons(req.truck)
    /\ DriverUnusable(req.truck)
    /\ trips # {}

\* C14: a single order under none of the failure conditions creates exactly
\* one row, Direct and Scheduled, for its vehicle, site, driver and load,
\* adds one to the counter of that vehicle and of that driver, and leaves
\* every other vehicle, driver and trip as it was.
C14_SingleSucceeds ==
    [][SingleStep =>
        LET t == req'.truck
            f == SingleFailures(req'.truck, req'.store, req'.load)
        IN (\A c \in DOMAIN f : ~f[c]) =>
             /\ outcome'.kind = "committed"
             /\ \E r \in trips' :
                   /\ trips' = trips \cup {r}
                   /\ \A x \in trips : x.id # r.id
                   /\ r.truck = t /\ r.store = req'.store /\ r.load = req'.load
                   /\ r.driver = assigned[t]
                   /\ r.kind = "Direct" /\ r.status = "Scheduled"
             /\ truckCount' = [truckCount EXCEPT ![t] = @ + 1]
             /\ driverCount' = [driverCount EXCEPT ![assigned[t]] = @ + 1]
             /\ UNCHANGED <<truckStatus, assigned, driverStatus>>]_vars

\* A single order has been planned while the other truck had a trip.
C14_Witness ==
    /\ req.kind = "single"
    /\ outcome.kind = "committed"
    /\ \E r, x \in trips :
          /\ r.id = nextId - 1 /\ r.ord = 0 /\ r.truck = req.truck
          /\ x.truck # r.truck

\* C15 (as claimed): every Trip row in the store has a strictly positive load.
C15_LoadsPositive == \A r \in trips : r.load > 0

\* C16: the trip counters of the vehicles and of the drivers, in the database
\* and in the session of a run, are never negative, whatever batch runs,
\* single orders, mark_complete and revert_trip requests were served; so a
\* revert that finds a counter at zero leaves it at zero.
C16_CountersNonNegative ==
    /\ \A t \in Trucks : truckCount[t] >= 0 /\ s_truckCount[t] >= 0
    /\ \A d \in DOMAIN driverCount : driverCount[d] >= 0
    /\ \A d \in DOMAIN s_driverCount : s_driverCount[d] >= 0

\* The run planned one trip, a Merged group of two rows; both rows have been
\* reverted, the second one with the counters already at zero.
C16_Witness ==
    /\ req.kind = "revert" /\ outcome.kind = "reverted"
    /\ Cardinality(reverted) = 2
    /\ \E k \in 1..Len(flashes) : flashes[k] = Flash("Auto-Plan: trips generated.", 1)
    /\ \A t \in Trucks : truckCount[t] = 0
    /\ \A d \in DOMAIN driverCount : driverCount[d] = 0

\* The step serves revert_trip.
RevertStep == pc = "idle" /\ ops' = ops + 1 /\ req'.kind = "revert"

\* C17: revert is idempotent per trip: a revert of an id that an earlier
\* revert has deleted changes no vehicle counter, no driver counter and no
\* Trip row.
C17_RevertIdempotent ==
    [][(RevertStep /\ req'.id \in reverted) =>
          /\ trips' = trips
          /\ truckCount' = truckCount
          /\ driverCount' = driverCount]_vars

\* A trip has been reverted a second time while another trip and a counter
\* above zero were there to be changed.
C17_Witness ==
    /\ req.kind = "revert" /\ req.id \in reverted
    /\ outcome.kind = "nothing"
    /\ trips # {}
    /\ \E t \in Trucks : truckCount[t] > 0

\* C18 (as claimed): the revert of a trip whose driver was deleted succeeds:
\* the row is deleted, the counter of its vehicle is decremented (not below
\* zero), the counters of the drivers are left alone.
C18_RevertWithoutDriver ==
    [][RevertStep =>
        \A r \in trips :
            (r.id = req'.id /\ r.driver = NoDriver) =>
                /\ trips' = trips \ {r}
                /\ truckCount' = [truckCount EXCEPT ![r.truck] = IF @ > 0 THEN @ - 1 ELSE @]
                /\ driverCount' = driverCount]_vars

\* No truck of the pool is compatible with store s.
NoCompatible(s) ==
    /\ s # NoStore
    /\ \A k \in 1..Len(valid_trucks) : ~check_compatibility(valid_trucks[k], s)

\* C19: an order whose site has no compatible vehicle in the pool is dropped
\* with a diagnostic and nothing else changes: no row, no fragment, no
\* counter, not the cursor; the run goes on to the next order from the state
\* it had before the dropped one.
C19_DropIsInert ==
    [][(/\ pc = "orders"
        /\ Len(orders') = Len(orders) + 1
        /\ NoCompatible(orders'[Len(orders')].store)) =>
          /\ pc' = "orders"
          /\ flashes' = Append(flashes, Flash("Skipped: No compatible trucks.",
                                               orders'[Len(orders')].store))
          /\ UNCHANGED <<pending, partials, truck_idx, trips_generated,
                         s_truckCount, s_driverCount, valid_trucks, dbVars>>]_vars

\* The second order has been dropped after the first one had left a Direct
\* row, a fragment and an advanced cursor.
C19_Witness ==
    /\ pc = "orders" /\ Len(orders) = 2
    /\ NoCompatible(orders[2].store)
    /\ SkippedFlash(orders[2].store)
    /\ ~NoCompatible(orders[1].store)
    /\ pending # <<>> /\ partials # <<>> /\ truck_idx > 0

\* At least one of the three flag pairs holds.
SomePairHolds(tr, st) ==
    \/ tr.is_low /\ st.high_dock
    \/ tr.is_large /\ st.small_gate
    \/ tr.is_tall /\ st.low_wires

\* C20: for every setting of the six flags check_compatibility returns a
\* result, and the result is false exactly when at least one of the three
\* flag pairs holds; the call changes neither its arguments nor anything else.
C20_CompatibleIff ==
    [][/\ probe'.result # NoResult
       /\ probe'.result.ok = ~SomePairHolds(probe.truck, probe.store)
       /\ probe'.truck = probe.truck /\ probe'.store = probe.store
       /\ UNCHANGED <<dbVars, pc, runVars, flashes, outcome, histVars, ops, runs, reqVars>>]_vars

\* The call has refused a tall truck under low wires, with the flags of the
\* other two pairs set on one side only.
C20_Witness ==
    /\ probe.kind = "call"
    /\ probe.result = [ok |-> FALSE, msg |-> "too TALL"]
    /\ probe.truck = TruckFlags(TRUE, FALSE, TRUE)
    /\ probe.store = StoreFlags(FALSE, TRUE, TRUE)

\* The rows of the running session that satisfy P.
RowsWhere(P(_)) == {i \in 1..Len(pending) : P(pending[i])}

\* Truck t is the only eligible vehicle, and it is compatible with the store
\* of the run's one order.
OneVehicleOneOrder(t) ==
    /\ {u \in Trucks : Eligible(u)} = {t}
    /\ Len(orders) = 1
    /\ orders[1].store # NoStore
    /\ check_compatibility(t, orders[1].store)

\* C21: a batch run with one eligible vehicle of capacity C and one order of
\* volume V emits V div C Direct trips of load C; for the remainder r, one
\* more Direct trip of load r if r >= 0.8 C, else one Merged trip of load r
\* if r > 0; nothing else; the vehicle's counter increases by the number of
\* trips.
C21_SingleVehicleSplit ==
    RunComplete =>
        \A t \in Trucks :
            OneVehicleOneOrder(t) =>
                LET C == capacity_tons(t)
                    V == orders[1].volume
                    r == V % C
                    more == r > 0 /\ 5 * r >= 4 * C
                    frag == r > 0 /\ 5 * r < 4 * C
                IN /\ \A i \in 1..Len(pending) : pending[i].truck = t /\ pending[i].ord = 1
                   /\ Cardinality(RowsWhere(LAMBDA x : x.kind = "Direct" /\ x.load = C)) = V \div C
                   /\ Cardinality(RowsWhere(LAMBDA x : x.kind = "Direct" /\ x.load = r))
                        = (IF more THEN 1 ELSE 0)
                   /\ Cardinality(RowsWhere(LAMBDA x : x.kind = "Merged" /\ x.load = r))
                        = (IF frag THEN 1 ELSE 0)
                   /\ Len(pending) = (V \div C) + (IF r > 0 THEN 1 ELSE 0)
                   /\ Increase(t) = Len(pending)

\* The 5-pallet truck, alone eligible in a pool of two, has taken an order of
\* 12: two Direct trips of 5 and a Merged trip of 2.
C21_Witness ==
    /\ RunComplete
    /\ OneVehicleOneOrder(2)
    /\ Len(valid_trucks) = 2
    /\ orders[1].volume = 12
    /\ Len(pending) = 3

\* The truck the partials loop selects in this state.
ConsSelected == Selected(CompatibleWith(valid_trucks, partials[1].store), truck_idx)

\* The fragments all lie within 10 km of the nearest one (the first after the
\* sort), truck t is compatible with all their sites and can carry them all.
AllBundle(t) ==
    /\ \A k \in 1..Len(partials) :
          /\ Abs(distance_km(partials[k].store) - distance_km(partials[1].store)) <= 10
          /\ check_compatibility(t, partials[k].store)
    /\ SumSeq([k \in 1..Len(partials) |-> partials[k].volume]) <= capacity_tons(t)

\* C22: when the partials loop selects a vehicle with an Active driver that
\* is compatible with the sites of all the fragments, can carry their total
\* volume, and all of them lie within 10 km of the nearest, the iteration
\* emits one Merged row per fragment, all for that vehicle and its driver,
\* empties the pool, and adds one to the counter of the vehicle and of the
\* driver for the whole group.
C22_NearbyFragmentsBundle ==
    [][(/\ pc = "partials" /\ partials # <<>>
        /\ consIter' = consIter + 1
        /\ ~DriverUnusable(ConsSelected)
        /\ AllBundle(ConsSelected)) =>
          LET t == ConsSelected
              d == assigned[t]
              n == Len(partials)
          IN /\ partials' = <<>>
             /\ Len(pending') = Len(pending) + n
             /\ SubSeq(pending', 1, Len(pending)) = pending
             /\ \A k \in 1..n :
                   LET r == pending'[Len(pending) + k]
                   IN /\ r.kind = "Merged" /\ r.truck = t /\ r.driver = d
                      /\ r.store = partials[k].store /\ r.load = partials[k].volume
                      /\ r.grp = pending'[Len(pending) + 1].grp
             /\ s_truckCount' = [s_truckCount EXCEPT ![t] = @ + 1]
             /\ s_driverCount' = [s_driverCount EXCEPT ![d] = @ + 1]
             /\ trips_generated' = trips_generated + 1]_vars

\* One iteration has bundled the two fragments of the run, for two different
\* sites, into one group that incremented the truck's counter once.
C22_Witness ==
    /\ RunComplete /\ consIter = 1 /\ nFrags0 = 2
    /\ \E i, j \in 1..Len(pending) :
          /\ Merged(i) /\ Merged(j) /\ pending[i].store # pending[j].store
          /\ pending[i].grp = pending[j].grp
          /\ Cardinality(RowsWhere(LAMBDA x : x.truck = pending[i].truck)) = 2
          /\ Increase(pending[i].truck) = 1

\* C24 (as claimed, for the rows batch runs plan): with requests served one
\* at a time, no vehicle has two Trip rows with the same start time, except
\* rows of one Merged group.
C24_NoDoubleBooking ==
    \A r, x \in trips :
        (/\ r.ord > 0 /\ x.ord > 0
         /\ r.id # x.id /\ r.truck = x.truck /\ r.start = x.start) =>
            /\ r.kind = "Merged" /\ x.kind = "Merged"
            /\ r.grp = x.grp

\* C25: Completed is terminal: a trip that is Completed is Completed for as
\* long as its row exists, whatever request is served; and mark_complete
\* changes no counter of a vehicle or of a driver.
C25_CompletedIsTerminal ==
    [][/\ \A r \in trips : \A x \in trips' :
             (r.status = "Completed" /\ x.id = r.id) => x.status = "Completed"
       /\ (pc = "idle" /\ ops' = ops + 1 /\ req'.kind = "complete") =>
             /\ truckCount' = truckCount
             /\ driverCount' = driverCount]_vars

\* mark_complete has been served, as the third request, for the only trip
\* there is, on a truck and a driver with counters above zero.
C25_Witness ==
    /\ req.kind = "complete" /\ ops = 3
    /\ Cardinality(trips) = 1
    /\ \E r \in trips :
          /\ r.id = req.id /\ r.status = "Completed"
          /\ truckCount[r.truck] > 0
          /\ r.driver # NoDriver /\ driverCount[r.driver] > 0

\* C26 (as claimed): within a run every selection of a truck, in the direct
\* pass and in the partials pass, advances the cursor by exactly one, and
\* nothing else changes the cursor.
C26_CursorAdvancesOnEverySelection ==
    [][pc' # "idle" =>
          /\ pc \in {"direct", "partials"} => truck_idx' = truck_idx + 1
          /\ pc = "orders" => truck_idx' = truck_idx]_vars

\* The rows the step adds to the session.
NewRows == SubSeq(pending', Len(pending) + 1, Len(pending'))

\* C27: every Direct row of a batch run has a load of at least 0.8 times the
\* capacity of its vehicle; an order leaves at most one fragment, and the
\* fragment's volume is below 0.8 times the capacity of the vehicle that was
\* selected when it was created.
C27_DirectNearFull ==
    [][/\ \A i \in 1..Len(NewRows) :
             NewRows[i].kind = "Direct" =>
                 5 * NewRows[i].load >= 4 * capacity_tons(NewRows[i].truck)
       /\ (pc = "direct" /\ Len(partials') = Len(partials) + 1) =>
             LET p == partials'[Len(partials')]
                 truck == Selected(CompatibleWith(valid_trucks, store), truck_idx)
             IN /\ 5 * p.volume < 4 * capacity_tons(truck)
                /\ p.ord = Len(orders)
                /\ \A k \in 1..Len(partials) : partials[k].ord # p.ord]_vars

\* One order has left a Direct row loaded exactly at the threshold, the other
\* a Direct row that fills its truck and a fragment.
C27_Witness ==
    /\ \E i, j \in 1..Len(pending) :
          /\ Direct(i) /\ 5 * pending[i].load = 4 * capacity_tons(pending[i].truck)
          /\ Direct(j) /\ pending[j].load = capacity_tons(pending[j].truck)
    /\ Len(partials) = 1
    /\ pc = "orders"

\* C28: the partials pass never splits a fragment: the rows an iteration adds
\* are Merged rows on one vehicle, one for each fragment it takes out of the
\* pool, with the fragment's site and its whole volume; a fragment that has
\* been emitted is in the pool no more and is never emitted again.
C28_FragmentsNotSplit ==
    [][pc = "partials" =>
          /\ \A i \in 1..Len(NewRows) :
                /\ NewRows[i].kind = "Merged"
                /\ NewRows[i].truck = NewRows[1].truck
                /\ \E k \in 1..Len(partials) :
                      /\ partials[k].ord = NewRows[i].ord
                      /\ partials[k].store = NewRows[i].store
                      /\ partials[k].volume = NewRows[i].load
                /\ \A k \in 1..Len(partials') : partials'[k].ord # NewRows[i].ord
                /\ \A j \in 1..Len(NewRows) : NewRows[j].ord = NewRows[i].ord => j = i
                /\ \A j \in 1..Len(pending) :
                      Merged(j) => pending[j].ord # NewRows[i].ord
          /\ Len(partials') = Len(partials) - Len(NewRows)]_vars

\* Two fragments were handed over and have been emitted by two iterations, on
\* two different vehicles.
C28_Witness ==
    /\ RunComplete /\ nFrags0 = 2
    /\ \E i, j \in 1..Len(pending) :
          /\ Merged(i) /\ Merged(j)
          /\ pending[i].grp # pending[j].grp
          /\ pending[i].truck # pending[j].truck

\* C29 (as claimed): an iteration of the partials loop changes a counter of
\* a vehicle or of a driver, or the count of generated trips, only when it
\* emits the rows of a non-empty group.
C29_CountsOnlyNonEmptyGroups ==
    [][(pc = "partials" /\ pc' = "partials") =>
          ((\/ s_truckCount' # s_truckCount
            \/ s_driverCount' # s_driverCount
            \/ trips_generated' # trips_generated) => Len(pending') > Len(pending))]_vars

\* C30 (as claimed, for the runs whose every count is the count of a trip with
\* rows): when a batch run has been committed and every row it created has
\* been reverted, the rows of the database being the ones of before the run,
\* every vehicle and every driver has the trip count it had before the run.
C30_PlanThenRevertRestores ==
    (/\ pc = "idle"
     /\ plan.ids # {} /\ ~plan.phantom
     /\ plan.ids \subseteq reverted
     /\ {r.id : r \in trips} = plan.tripIds) =>
        /\ \A t \in Trucks : truckCount[t] = plan.truckCount[t]
        /\ \A d \in DOMAIN driverCount \cap DOMAIN plan.driverCount :
              driverCount[d] = plan.driverCount[d]

\* The counters are what they were plus what the two requests have counted.
Balanced(cnt, start, net) ==
    \A k \in DOMAIN cnt : cnt[k] = start[k] + net[1][k] + net[2][k]

\* C23 (as claimed): when the two requests served at the same time have both
\* ended, every trip counter is its initial value plus the increments and
\* minus the effective decrements the two requests made.
C23_NoLostUpdate ==
    (\A p \in Procs : sess[p].pc = "done") =>
        /\ Balanced(truckCount, PlannedTruckCount, [p \in Procs |-> sess[p].netTrucks])
        /\ Balanced(driverCount, PlannedDriverCount, [p \in Procs |-> sess[p].netDrivers])

====
